---- MODULE Spec2Model ----
(***************************************************************************)
(* The mint scripts of metaplex-nft-mint as state machines.                *)
(*                                                                         *)
(*   script = "single"  src/src/index.ts      one NFT, retried upload/mint *)
(*   script = "csv"     src/unnamed/part_003  collection + one NFT per user*)
(*   script = "cnft"    src/unnamed/part_004  compressed NFTs in batches   *)
(*                                                                         *)
(* Every upstream call (storage upload, metadata upload, create, confirm,  *)
(* RPC queries, createTree, mintV1) is an opaque collaborator: it either   *)
(* returns or throws, chosen nondeterministically.                         *)
(***************************************************************************)
EXTENDS Integers, Sequences, FiniteSets, TLC

VARIABLES
    script,          \* which script's main() is running
    pc,              \* position of main()
    argv2,           \* process.argv[2]; "" when omitted
    envRpc,          \* process.env.SOLANA_RPC_URL is set
    envKey,          \* process.env.WALLET_PRIVATE_KEY: "absent" | "valid" | "invalid"
    retryCount,      \* let retryCount
    imageUri,        \* invocation of storage().upload that produced imageUri; 0 = undefined
    nft,             \* invocation of nfts().create that produced nft / collectionNft; 0 = undefined
    calls,           \* number of invocations of each upstream operation
    delays5,         \* 5000 ms waits performed, per retried operation
    delays2,         \* 2000 ms waits performed
    thrown,          \* the error travelling to, or caught by, a run-level handler
    handlerLog,      \* console.error records of the handlers, in order
    exitCode,        \* process exit status; -1 while running
    rowIdx,          \* CSV records consumed so far
    parseErrors,     \* rows whose parse error was logged
    users,           \* part_003: User[] returned by readUsersFromCSV
    userIdx,         \* part_003: users already handed to mintNFTForUser
    confirmErrs,     \* part_003: collection confirmations whose value.err was set
    userCollections, \* part_003: the collection passed to each per-user nfts().create
    solanaAddresses, \* part_004: string[] filled by the extraction loop
    i,               \* part_004: batch loop index
    batch,           \* part_004: the current slice
    j,               \* part_004: addresses of the current slice already iterated
    mintLog,         \* part_004: the addresses handed to the mint try block, in order
    mintFailures,    \* part_004: "Failed to mint NFT for address" lines logged
    batchSizes,      \* part_004: length of every slice taken so far
    delayAfter,      \* part_004: number of mint attempts done when each 2 s wait ran
    balance,         \* part_004: lamports returned by getBalance; -1 before the query
    curText,         \* extraction harness: the row text last handed to the extractors
    outUsers,        \* extraction harness: readUsersFromCSV output so far
    outInline,       \* extraction harness: part_004 main's solanaAddresses so far
    outFn,           \* extraction harness: extractSolanaAddresses output so far
    fnThrew          \* extraction harness: extractSolanaAddresses let an exception escape

vars == <<script, pc, argv2, envRpc, envKey, retryCount, imageUri, nft, calls,
          delays5, delays2, thrown, handlerLog, exitCode, rowIdx, parseErrors,
          users, userIdx, confirmErrs, userCollections, solanaAddresses, i, batch, j, mintLog, mintFailures,
          batchSizes, delayAfter, balance, curText, outUsers, outInline, outFn,
          fnThrew>>

inputVars == <<script, argv2, envRpc, envKey>>
rowVars == <<rowIdx, parseErrors>>
csvVars == <<users, userIdx, confirmErrs, userCollections>>
cnftVars == <<solanaAddresses, i, batch, j, mintLog, mintFailures, batchSizes,
              delayAfter, balance>>
harnessVars == <<curText, outUsers, outInline, outFn, fnThrew>>

\* ------------------------------------------------------------- constants

maxRetries == 3
batchSize == 5
LAMPORTS_PER_SOL == 1000000000

\* Bounds of the model.
MaxRows == 12
MaxCsvRows == 3
MaxEntries == 2
MaxExtractRows == 2

\* ------------------------------------------------------------- values

Undefined == "<undefined>"
Null == "<null>"

NoErr == [op |-> "none", n |-> 0]
Err(op, n) == [op |-> op, n |-> n]

Ops == {"upload", "uploadMetadata", "create", "confirm",
        "userUploadMetadata", "userCreate", "userConfirm",
        "getSlot", "getBlockTime", "getBalance", "createTree", "uploadJson", "mintV1"}

Bump(c, op) == [c EXCEPT ![op] = @ + 1]

Min(a, b) == IF a < b THEN a ELSE b

\* ------------------------------------------------------------- configuration

\* Tokens tried for process.argv[2]: omitted, the two networks, a token that
\* is no property of NETWORK_CONFIGS, and one inherited from Object.prototype.
Argv2Values == {"", "mainnet", "devnet", "testnet", "constructor"}
KeyValues == {"absent", "valid", "invalid"}

\* process.argv[2] || 'devnet'
NetworkOf(a) == IF a = "" THEN "devnet" ELSE a

\* NETWORK_CONFIGS[network]: an own entry, a value inherited through the
\* prototype chain (no rpcUrl, no bundlrAddress), or undefined.
NETWORK_CONFIGS(network) ==
    IF network \in {"mainnet", "devnet"} THEN network
    ELSE IF network \in {"constructor", "toString", "valueOf"} THEN "inherited"
    ELSE Undefined

\* Lines 34-68 of index.ts (140-174 of part_003), up to the try block:
\* "ready", or the error main() rejects with.  SOLANA_RPC_URL || config.rpcUrl
\* reads config only when the variable is unset; new Connection(undefined)
\* throws.
ConfigureOutcome(a, rpc, key) ==
    LET config == NETWORK_CONFIGS(NetworkOf(a)) IN
    IF ~rpc /\ config = Undefined THEN "TypeError"            \* config.rpcUrl
    ELSE IF ~rpc /\ config = "inherited" THEN "EndpointError"
    ELSE IF key = "absent" THEN "WalletKeyNotSet"
    ELSE IF key = "invalid" THEN "KeyDecodeError"
    ELSE IF config = Undefined THEN "TypeError"               \* config.bundlrAddress
    ELSE "ready"

\* The wallet check of part_004 (lines 56-59); argv[2] is never read.
CnftKeyOutcome(key) == IF key = "absent" THEN "WalletKeyNotSet" ELSE "ready"

\* ------------------------------------------------------------- linked_accounts text

\* One decoded element of the linked_accounts array.  A missing field reads as
\* undefined; isNull marks an element that is the literal None / null.
EntryOf(type, chain, address) ==
    [isNull |-> FALSE, type |-> type, chain_type |-> chain, address |-> address]

NullEntry == [isNull |-> TRUE, type |-> Undefined, chain_type |-> Undefined, address |-> Undefined]

\* Entries the rows are built from: a null element, an e-mail account, an entry
\* matching only the type, one matching only the chain, wallets with an
\* address (one containing the token None), without the address field, with a
\* None address and with an empty address.
EntryValues ==
    { NullEntry,
      EntryOf("email", Undefined, Undefined),
      EntryOf("wallet", "ethereum", "E"),
      EntryOf("email", "solana", "S"),
      EntryOf("wallet", "solana", "A"),
      EntryOf("wallet", "solana", "B"),
      EntryOf("wallet", "solana", "NoneC"),
      EntryOf("wallet", "solana", Undefined),
      EntryOf("wallet", "solana", Null),
      EntryOf("wallet", "solana", "") }

\* The text of one linked_accounts cell, by its lexical form and the value it
\* denotes:
\*   "python"    single-quoted strings, True/False/None (the export format)
\*   "json"      standard JSON
\*   "jsonApos"  standard JSON with an apostrophe inside a string value
\*   "broken"    not JSON in either quoting (truncated, unbalanced)
\* isList = FALSE: the text denotes an object or a scalar, not an array.
TextOf(form, isList, entries) == [form |-> form, isList |-> isList, entries |-> entries]

EntryLists(n) == UNION { [1..k -> EntryValues] : k \in 0..n }

Texts ==
    { TextOf(f, TRUE, es) : f \in {"python", "json", "jsonApos"}, es \in EntryLists(MaxEntries) }
    \cup { TextOf(f, FALSE, <<>>) : f \in {"python", "json"} }
    \cup { TextOf("broken", TRUE, <<>>) }

\* s.replace(/True/g,'true').replace(/False/g,'false').replace(/None/g,'null')
\* on the strings of the model: only "NoneC" holds one of the tokens.
ReplaceTokens(s) == IF s = "NoneC" THEN "nullC" ELSE s

\* Lines 47-51 of part_003: every ' becomes ", every True/False/None token
\* becomes true/false/null, inside string values too.  Python-style text
\* becomes JSON; JSON holding an apostrophe is no longer JSON.
Normalize(t) ==
    [ form    |-> IF t.form = "python" THEN "json"
                  ELSE IF t.form = "jsonApos" THEN "broken"
                  ELSE t.form,
      isList  |-> t.isList,
      entries |-> [k \in DOMAIN t.entries |->
                      [t.entries[k] EXCEPT !.address = ReplaceTokens(@)]] ]

\* Lines 161-165 of part_004: the same four replacements in another order
\* (the tokens do not overlap, so the order does not matter).
NormalizeInline(t) == Normalize(t)

\* JSON.parse accepts standard JSON only (an apostrophe inside a string is fine).
Parses(t) == t.form \in {"json", "jsonApos"}

\* IsSolanaWallet with || for &&.
IsSolanaWalletEither(account) == account.type = "wallet" \/ account.chain_type = "solana"

\* The find callback (part_003 54-56, part_004 168-170).
IsSolanaWallet(account) == account.type = "wallet" /\ account.chain_type = "solana"

\* accounts.find(account => account.type === 'wallet' && account.chain_type === 'solana'):
\* the index of the first match, 0 when there is none, -1 when the callback
\* throws a TypeError reading .type of a null element met before any match.
RECURSIVE FindFrom(_, _)
FindFrom(accounts, k) ==
    IF k > Len(accounts) THEN 0
    ELSE IF accounts[k].isNull THEN -1
    ELSE IF IsSolanaWallet(accounts[k]) THEN k
    ELSE FindFrom(accounts, k + 1)

Find(accounts) == FindFrom(accounts, 1)

\* extractSolanaAddress (part_003 44-63): the address, or undefined; logged
\* tells whether the catch block ran.
extractSolanaAddress(linkedAccounts) ==
    LET normalizedJson == Normalize(linkedAccounts)
        found == Find(normalizedJson.entries)
    IN  IF ~Parses(normalizedJson) \/ ~normalizedJson.isList \/ found = -1
        THEN [address |-> Undefined, logged |-> TRUE]
        ELSE IF found = 0
        THEN [address |-> Undefined, logged |-> FALSE]      \* solanaAccount?.address
        ELSE [address |-> normalizedJson.entries[found].address, logged |-> FALSE]

\* One record of readUsersFromCSV's map/filter (part_003 72-75): the users
\* this row adds.
UsersOfRow(id, linkedAccounts) ==
    LET user == [id |-> id, solanaAddress |-> extractSolanaAddress(linkedAccounts).address]
    IN  IF user.solanaAddress # Undefined THEN <<user>> ELSE <<>>

\* One iteration of the extraction loop of part_004's main (158-179): the
\* addresses this record pushes, and whether the catch block logged.
InlineOfRow(linkedAccounts) ==
    LET jsonStr == NormalizeInline(linkedAccounts)
        found == Find(jsonStr.entries)
    IN  IF ~Parses(jsonStr) \/ ~jsonStr.isList \/ found = -1
        THEN [pushed |-> <<>>, logged |-> TRUE]
        ELSE IF found = 0
        THEN [pushed |-> <<>>, logged |-> FALSE]
        ELSE [pushed |-> <<jsonStr.entries[found].address>>, logged |-> FALSE]

\* One iteration of extractSolanaAddresses (part_004 38-50): JSON.parse of the
\* raw text, no normalization and no try/catch.
FnOfRow(linkedAccounts) ==
    LET found == Find(linkedAccounts.entries)
    IN  IF ~Parses(linkedAccounts) \/ ~linkedAccounts.isList \/ found = -1
        THEN [pushed |-> <<>>, threw |-> TRUE]
        ELSE IF found = 0
        THEN [pushed |-> <<>>, threw |-> FALSE]
        ELSE [pushed |-> <<linkedAccounts.entries[found].address>>, threw |-> FALSE]

\* Addresses of the rows fed to the two CSV-driven mains, one name per position.
AddrNames == <<"a1", "a2", "a3", "a4", "a5", "a6", "a7", "a8", "a9", "a10",
               "a11", "a12", "a13", "a14", "a15", "a16">>

\* Rows of users.sample.csv as the mains see them: a Python-style row with an
\* e-mail account and a Solana wallet, a row without a Solana wallet, and a
\* truncated row.
CnftRowTexts(address) ==
    { TextOf("python", TRUE, <<EntryOf("email", Undefined, Undefined),
                               EntryOf("wallet", "solana", address)>>),
      TextOf("python", TRUE, <<EntryOf("email", Undefined, Undefined)>>),
      TextOf("broken", TRUE, <<>>) }

\* part_003 is also fed a wallet whose address is None.
CsvRowTexts(address) ==
    CnftRowTexts(address)
    \cup { TextOf("python", TRUE, <<EntryOf("wallet", "solana", Null)>>) }

\* ------------------------------------------------------------- initial state

InitCommon ==
    /\ pc = "start"
    /\ retryCount = 0
    /\ imageUri = 0
    /\ nft = 0
    /\ calls = [op \in Ops |-> 0]
    /\ delays5 = [op \in {"upload", "create"} |-> 0]
    /\ delays2 = 0
    /\ thrown = NoErr
    /\ handlerLog = <<>>
    /\ exitCode = -1
    /\ rowIdx = 0
    /\ parseErrors = 0
    /\ users = <<>>
    /\ userIdx = 0
    /\ confirmErrs = 0
    /\ userCollections = <<>>
    /\ solanaAddresses = <<>>
    /\ i = 0
    /\ batch = <<>>
    /\ j = 0
    /\ mintLog = <<>>
    /\ mintFailures = 0
    /\ batchSizes = <<>>
    /\ delayAfter = <<>>
    /\ balance = -1
    /\ curText = TextOf("broken", TRUE, <<>>)
    /\ outUsers = <<>>
    /\ outInline = <<>>
    /\ outFn = <<>>
    /\ fnThrew = FALSE

\* A run of one of the three scripts, with any command line and environment.
Init ==
    /\ script \in {"single", "csv", "cnft"}
    /\ argv2 \in Argv2Values
    /\ envRpc \in BOOLEAN
    /\ envKey \in KeyValues
    /\ InitCommon

\* ------------------------------------------------------------- index.ts

\* UploadIteration with the rethrow test written `retryCount > maxRetries`.
UploadIterationLateThrow(rc, ok) ==
    IF ok THEN [retryCount |-> rc, delay |-> 0, next |-> "break"]
    ELSE IF rc + 1 > maxRetries
         THEN [retryCount |-> rc + 1, delay |-> 0, next |-> "throw"]
         ELSE [retryCount |-> rc + 1, delay |-> 1,
               next |-> IF rc + 1 < maxRetries THEN "loop" ELSE "exit"]

\* One pass of `while (retryCount < maxRetries) { try {...; break} catch {...} }`
\* (index.ts 80-91), given the counter on entry and whether the upload
\* returned: the counter after it, the 5 s waits it performed and where
\* control goes: "break", "throw" (the caught error is rethrown), "loop"
\* (the condition holds again) or "exit" (the condition fails).
UploadIteration(rc, ok) ==
    IF ok THEN [retryCount |-> rc, delay |-> 0, next |-> "break"]
    ELSE IF rc + 1 = maxRetries
         THEN [retryCount |-> rc + 1, delay |-> 0, next |-> "throw"]
         ELSE [retryCount |-> rc + 1, delay |-> 1,
               next |-> IF rc + 1 < maxRetries THEN "loop" ELSE "exit"]

\* MintIteration without the break after a successful create.
MintIterationNoBreak(rc, ok) ==
    IF ok THEN [retryCount |-> rc, delay |-> 0, next |-> "loop"]
    ELSE IF rc + 1 = maxRetries
         THEN [retryCount |-> rc + 1, delay |-> 0, next |-> "throw"]
         ELSE [retryCount |-> rc + 1, delay |-> 1,
               next |-> IF rc + 1 < maxRetries THEN "loop" ELSE "exit"]

\* The same loop around metaplex.nfts().create (index.ts 112-132).
MintIteration(rc, ok) ==
    IF ok THEN [retryCount |-> rc, delay |-> 0, next |-> "break"]
    ELSE IF rc + 1 = maxRetries
         THEN [retryCount |-> rc + 1, delay |-> 0, next |-> "throw"]
         ELSE [retryCount |-> rc + 1, delay |-> 1,
               next |-> IF rc + 1 < maxRetries THEN "loop" ELSE "exit"]

\* main(), lines 34-68: network selection, connection, wallet, Metaplex.
Configure ==
    /\ script = "single" /\ pc = "start"
    /\ LET o == ConfigureOutcome(argv2, envRpc, envKey)
       IN  IF o = "ready"
           THEN pc' = "try" /\ thrown' = thrown
           ELSE pc' = "rejected" /\ thrown' = Err(o, 0)
    /\ UNCHANGED <<inputVars, retryCount, imageUri, nft, calls, delays5, delays2,
                   handlerLog, exitCode, rowVars, csvVars, cnftVars, harnessVars>>

\* Lines 72-78: read ./assets/image.png, then retryCount = 0.
ReadImage ==
    /\ script = "single" /\ pc = "try"
    /\ \E ok \in BOOLEAN :
         IF ok
         THEN pc' = "upload" /\ retryCount' = 0 /\ thrown' = thrown
         ELSE pc' = "catch" /\ retryCount' = retryCount /\ thrown' = Err("readFile", 0)
    /\ UNCHANGED <<inputVars, imageUri, nft, calls, delays5, delays2,
                   handlerLog, exitCode, rowVars, csvVars, cnftVars, harnessVars>>

\* Lines 80-95: one pass of the image upload loop, and the imageUri check
\* behind the loop.
UploadImage ==
    /\ script = "single" /\ pc = "upload"
    /\ calls' = Bump(calls, "upload")
    /\ \E ok \in BOOLEAN :
         LET r == UploadIteration(retryCount, ok)
         IN  /\ retryCount' = r.retryCount
             /\ delays5' = [delays5 EXCEPT !["upload"] = @ + r.delay]
             /\ imageUri' = IF ok THEN calls'["upload"] ELSE imageUri
             /\ pc' = CASE r.next = "break" -> "metadata"
                        [] r.next = "loop"  -> "upload"
                        [] OTHER            -> "catch"
             /\ thrown' = CASE r.next = "throw" -> Err("upload", calls'["upload"])
                            [] r.next = "exit"  -> Err("Failed to upload image after all retries", 0)
                            [] OTHER            -> thrown
    /\ UNCHANGED <<inputVars, nft, delays2, handlerLog, exitCode, rowVars,
                   csvVars, cnftVars, harnessVars>>

\* ResetRetryCount leaving the counter of the image upload loop in place.
RetryCountKept(rc) == rc

\* Line 110: retryCount = 0 between the image upload loop and the mint loop.
ResetRetryCount(rc) == 0

\* Lines 98-110: the metadata upload, called once, then retryCount = 0.
UploadMetadata ==
    /\ script = "single" /\ pc = "metadata"
    /\ calls' = Bump(calls, "uploadMetadata")
    /\ \E ok \in BOOLEAN :
         IF ok
         THEN pc' = "mint" /\ retryCount' = ResetRetryCount(retryCount) /\ thrown' = thrown
         ELSE /\ pc' = "catch" /\ retryCount' = retryCount
              /\ thrown' = Err("uploadMetadata", calls'["uploadMetadata"])
    /\ UNCHANGED <<inputVars, imageUri, nft, delays5, delays2, handlerLog,
                   exitCode, rowVars, csvVars, cnftVars, harnessVars>>

\* Lines 112-140: one pass of the mint loop, the nft check and the success logs.
MintNft ==
    /\ script = "single" /\ pc = "mint"
    /\ calls' = Bump(calls, "create")
    /\ \E ok \in BOOLEAN :
         LET r == MintIteration(retryCount, ok)
         IN  /\ retryCount' = r.retryCount
             /\ delays5' = [delays5 EXCEPT !["create"] = @ + r.delay]
             /\ nft' = IF ok THEN calls'["create"] ELSE nft
             /\ pc' = CASE r.next = "break" -> "done"
                        [] r.next = "loop"  -> "mint"
                        [] OTHER            -> "catch"
             /\ thrown' = CASE r.next = "throw" -> Err("create", calls'["create"])
                            [] r.next = "exit"  -> Err("Failed to mint NFT after all retries", 0)
                            [] OTHER            -> thrown
    /\ UNCHANGED <<inputVars, imageUri, delays2, handlerLog, exitCode, rowVars,
                   csvVars, cnftVars, harnessVars>>

\* Lines 141-143: catch (error) { console.error('Error minting NFT:', error) }.
RunCatch ==
    /\ script = "single" /\ pc = "catch"
    /\ handlerLog' = Append(handlerLog, [handler |-> "run", err |-> thrown])
    /\ pc' = "done"
    /\ UNCHANGED <<inputVars, retryCount, imageUri, nft, calls, delays5, delays2,
                   thrown, exitCode, rowVars, csvVars, cnftVars, harnessVars>>

\* Line 146: main().catch(console.error).
MainCatch ==
    /\ script = "single" /\ pc = "rejected"
    /\ handlerLog' = Append(handlerLog, [handler |-> "main", err |-> thrown])
    /\ pc' = "done"
    /\ UNCHANGED <<inputVars, retryCount, imageUri, nft, calls, delays5, delays2,
                   thrown, exitCode, rowVars, csvVars, cnftVars, harnessVars>>

\* The event loop drains.  No script sets process.exitCode or calls
\* process.exit, and every rejection of main() is handled by .catch: the
\* status is 0.
Exit ==
    /\ pc = "done"
    /\ pc' = "exited"
    /\ exitCode' = 0
    /\ UNCHANGED <<inputVars, retryCount, imageUri, nft, calls, delays5, delays2,
                   thrown, handlerLog, rowVars, csvVars, cnftVars, harnessVars>>

\* ------------------------------------------------------------- part_003 (CSV script)

\* !value for the address values of the model.
Falsy(value) == value \in {Undefined, Null, ""}

\* CollectionIteration rethrowing on the first failure.
CollectionIterationNoRetry(rc, ok) ==
    IF ok THEN [retryCount |-> rc, delay |-> 0, next |-> "break"]
    ELSE [retryCount |-> rc + 1, delay |-> 0, next |-> "throw"]

\* One pass of the collection mint loop (part_003 206-236); ok: create
\* returned and the confirmation carried no error.
CollectionIteration(rc, ok) ==
    IF ok THEN [retryCount |-> rc, delay |-> 0, next |-> "break"]
    ELSE IF rc + 1 = maxRetries
         THEN [retryCount |-> rc + 1, delay |-> 0, next |-> "throw"]
         ELSE [retryCount |-> rc + 1, delay |-> 1,
               next |-> IF rc + 1 < maxRetries THEN "loop" ELSE "exit"]

\* UserMintNext with the error swallowed instead of rethrown.
UserMintNextSwallowed(outcome) == "users"

\* Where main() goes after mintNFTForUser (part_003 132-135, 247-252): on to
\* the next user, or, the error being rethrown, to main's catch block.
UserMintNext(outcome) == IF outcome = "ok" THEN "users" ELSE "catch"

\* Outcomes of one create + confirmTransaction of the collection mint.
MintOutcomes == {"ok", "createThrow", "confirmThrow", "confirmErr"}

\* AttemptOk taking a confirmation that carries an error for a success.
AttemptOkIgnoringErr(outcome) == outcome \in {"ok", "confirmErr"}

\* The try block of the collection mint loop (part_003 208-229) reaches
\* collectionNft = result.nft only when create and confirmTransaction
\* returned and confirmation.value.err was not set (224-226).
AttemptOk(outcome) == outcome = "ok"

\* Outcomes of mintNFTForUser's try block: uploadMetadata, create,
\* confirmTransaction.
UserMintOutcomes == {"ok", "userUploadThrow", "userCreateThrow", "userConfirmThrow",
                     "userConfirmErr"}

\* main(), lines 140-174.
CsvConfigure ==
    /\ script = "csv" /\ pc = "start"
    /\ LET o == ConfigureOutcome(argv2, envRpc, envKey)
       IN  IF o = "ready"
           THEN pc' = "metadata" /\ thrown' = thrown
           ELSE pc' = "rejected" /\ thrown' = Err(o, 0)
    /\ UNCHANGED <<inputVars, retryCount, imageUri, nft, calls, delays5, delays2,
                   handlerLog, exitCode, rowVars, csvVars, cnftVars, harnessVars>>

\* Lines 178-204: the collection metadata upload, called once, then
\* retryCount = 0.
CollectionMetadata ==
    /\ script = "csv" /\ pc = "metadata"
    /\ calls' = Bump(calls, "uploadMetadata")
    /\ \E ok \in BOOLEAN :
         IF ok
         THEN pc' = "collection" /\ retryCount' = 0 /\ thrown' = thrown
         ELSE /\ pc' = "catch" /\ retryCount' = retryCount
              /\ thrown' = Err("uploadMetadata", calls'["uploadMetadata"])
    /\ UNCHANGED <<inputVars, imageUri, nft, delays5, delays2, handlerLog,
                   exitCode, rowVars, csvVars, cnftVars, harnessVars>>

\* Lines 206-240: one pass of the collection mint loop (create, then
\* confirmTransaction, whose value.err is thrown as an error), and the
\* collectionNft check behind the loop.
MintCollection ==
    /\ script = "csv" /\ pc = "collection"
    /\ \E outcome \in MintOutcomes :
         LET r == CollectionIteration(retryCount, AttemptOk(outcome))
             c == IF outcome = "createThrow"
                  THEN Bump(calls, "create")
                  ELSE Bump(Bump(calls, "create"), "confirm")
         IN  /\ calls' = c
             /\ retryCount' = r.retryCount
             /\ delays5' = [delays5 EXCEPT !["create"] = @ + r.delay]
             /\ nft' = IF AttemptOk(outcome) THEN c["create"] ELSE nft
             /\ confirmErrs' = confirmErrs + (IF outcome = "confirmErr" THEN 1 ELSE 0)
             /\ pc' = CASE r.next = "break" -> "readCsv"
                        [] r.next = "loop"  -> "collection"
                        [] OTHER            -> "catch"
             /\ thrown' = CASE r.next = "throw" -> Err(outcome, c["create"])
                            [] r.next = "exit"  -> Err("Failed to mint collection NFT", 0)
                            [] OTHER            -> thrown
    /\ UNCHANGED <<inputVars, imageUri, delays2, handlerLog, exitCode, rowVars,
                   users, userIdx, userCollections, cnftVars, harnessVars>>

\* Lines 66-70 (called from 243): read and parse the CSV file.
ReadCsvFile ==
    /\ script = "csv" /\ pc = "readCsv"
    /\ \E ok \in BOOLEAN :
         IF ok
         THEN pc' = "rows" /\ thrown' = thrown
         ELSE pc' = "catch" /\ thrown' = Err("readFile", 0)
    /\ UNCHANGED <<inputVars, retryCount, imageUri, nft, calls, delays5, delays2,
                   handlerLog, exitCode, rowVars, csvVars, cnftVars, harnessVars>>

\* Lines 72-75: map and filter applied to the next record.
ReadUsersRow ==
    /\ script = "csv" /\ pc = "rows" /\ rowIdx < MaxCsvRows
    /\ \E text \in CsvRowTexts(AddrNames[rowIdx + 1]) :
         /\ users' = users \o UsersOfRow(rowIdx + 1, text)
         /\ parseErrors' = parseErrors
                           + (IF extractSolanaAddress(text).logged THEN 1 ELSE 0)
    /\ rowIdx' = rowIdx + 1
    /\ UNCHANGED <<inputVars, pc, retryCount, imageUri, nft, calls, delays5, delays2,
                   thrown, handlerLog, exitCode, userIdx, confirmErrs, userCollections,
                   cnftVars, harnessVars>>

\* Lines 243-244: no record is left; readUsersFromCSV returns.
ReadUsersDone ==
    /\ script = "csv" /\ pc = "rows"
    /\ pc' = "users"
    /\ UNCHANGED <<inputVars, retryCount, imageUri, nft, calls, delays5, delays2,
                   thrown, handlerLog, exitCode, rowVars, csvVars, cnftVars,
                   harnessVars>>

\* Lines 247-252 with mintNFTForUser (78-136): the next user's metadata
\* upload, create and confirmation; a failure is logged and rethrown.
MintForUser ==
    /\ script = "csv" /\ pc = "users" /\ userIdx < Len(users)
    /\ userIdx' = userIdx + 1
    /\ LET user == users[userIdx + 1]
       IN  IF Falsy(user.solanaAddress)
           THEN /\ pc' = UserMintNext("noAddress")
                /\ thrown' = Err("noAddress", userIdx')
                /\ UNCHANGED <<calls, delays2, handlerLog, userCollections>>
           ELSE \E outcome \in UserMintOutcomes :
                  /\ calls' =
                       CASE outcome = "userUploadThrow" ->
                              Bump(calls, "userUploadMetadata")
                         [] outcome = "userCreateThrow" ->
                              Bump(Bump(calls, "userUploadMetadata"), "userCreate")
                         [] OTHER ->
                              Bump(Bump(Bump(calls, "userUploadMetadata"), "userCreate"),
                                   "userConfirm")
                  /\ userCollections' =
                       IF outcome = "userUploadThrow" THEN userCollections
                       ELSE Append(userCollections, nft)     \* collection: collectionNft.address
                  /\ pc' = UserMintNext(outcome)
                  /\ IF outcome = "ok"
                     THEN /\ delays2' = delays2 + 1
                          /\ UNCHANGED <<thrown, handlerLog>>
                     ELSE /\ thrown' = Err(outcome, userIdx')
                          /\ handlerLog' = Append(handlerLog,
                                 [handler |-> "mintNFTForUser", err |-> thrown'])
                          /\ delays2' = delays2
    /\ UNCHANGED <<inputVars, retryCount, imageUri, nft, delays5, exitCode, rowVars,
                   users, confirmErrs, cnftVars, harnessVars>>

\* Line 254: the loop is over.
AllUsersMinted ==
    /\ script = "csv" /\ pc = "users" /\ userIdx = Len(users)
    /\ pc' = "done"
    /\ UNCHANGED <<inputVars, retryCount, imageUri, nft, calls, delays5, delays2,
                   thrown, handlerLog, exitCode, rowVars, csvVars, cnftVars,
                   harnessVars>>

\* Lines 255-257: catch (error) { console.error('Error minting NFTs:', error) }.
CsvRunCatch ==
    /\ script = "csv" /\ pc = "catch"
    /\ handlerLog' = Append(handlerLog, [handler |-> "run", err |-> thrown])
    /\ pc' = "done"
    /\ UNCHANGED <<inputVars, retryCount, imageUri, nft, calls, delays5, delays2,
                   thrown, exitCode, rowVars, csvVars, cnftVars, harnessVars>>

\* Line 260: main().catch(console.error).
CsvMainCatch ==
    /\ script = "csv" /\ pc = "rejected"
    /\ handlerLog' = Append(handlerLog, [handler |-> "main", err |-> thrown])
    /\ pc' = "done"
    /\ UNCHANGED <<inputVars, retryCount, imageUri, nft, calls, delays5, delays2,
                   thrown, exitCode, rowVars, csvVars, cnftVars, harnessVars>>

\* ------------------------------------------------------------- part_004 (compressed NFTs)

\* Slice taking the end position as the last one wanted, one short.
SliceShort(array, start, end) == SubSeq(array, start + 1, Min(end - 1, Len(array)))

\* Array.prototype.slice(start, end) for 0 <= start <= end: the elements at
\* the 0-based positions start .. end-1 that exist.
Slice(array, start, end) == SubSeq(array, start + 1, Min(end, Len(array)))

\* Line 185: i < solanaAddresses.length.
BatchLoopCond(index, length) == index < length

\* Line 185: i += batchSize.
NextBatchIndex(index) == index + batchSize

\* WaitsBetweenBatches with <= for <.
WaitsAfterEveryFullBatch(index, length) == index + batchSize <= length

\* Line 220: i + batchSize < solanaAddresses.length.
WaitsBetweenBatches(index, length) == index + batchSize < length

\* InsufficientBalance comparing the lamports, not the SOL, with 1.
InsufficientBalanceInLamports(lamports) == lamports < 1

\* Lines 96-99: balanceInSol = balance / 1e9; balanceInSol < 1.
InsufficientBalance(lamports) == lamports < LAMPORTS_PER_SOL

BalanceValues == {0, LAMPORTS_PER_SOL - 1, LAMPORTS_PER_SOL}

\* Lines 56-64: the wallet check and the Umi instance on the fixed devnet URL.
CnftStart ==
    /\ script = "cnft" /\ pc = "start"
    /\ IF CnftKeyOutcome(envKey) = "ready"
       THEN pc' = "rpc" /\ thrown' = thrown
       ELSE pc' = "rejected" /\ thrown' = Err(CnftKeyOutcome(envKey), 0)
    /\ UNCHANGED <<inputVars, retryCount, imageUri, nft, calls, delays5, delays2,
                   handlerLog, exitCode, rowVars, csvVars, cnftVars, harnessVars>>

\* Lines 67-78: getSlot and getBlockTime; a failure is logged and main returns.
CheckRpc ==
    /\ script = "cnft" /\ pc = "rpc"
    /\ \E outcome \in {"ok", "getSlot", "getBlockTime"} :
         /\ calls' = IF outcome = "getSlot"
                     THEN Bump(calls, "getSlot")
                     ELSE Bump(Bump(calls, "getSlot"), "getBlockTime")
         /\ IF outcome = "ok"
            THEN pc' = "signer" /\ UNCHANGED handlerLog
            ELSE /\ pc' = "done"
                 /\ handlerLog' = Append(handlerLog,
                        [handler |-> "rpcCheck", err |-> Err(outcome, 1)])
    /\ UNCHANGED <<inputVars, retryCount, imageUri, nft, delays5, delays2, thrown,
                   exitCode, rowVars, csvVars, cnftVars, harnessVars>>

\* Lines 81-89: decode the private key into the signer.
CreateSigner ==
    /\ script = "cnft" /\ pc = "signer"
    /\ IF envKey = "valid"
       THEN pc' = "balance" /\ thrown' = thrown
       ELSE pc' = "rejected" /\ thrown' = Err("KeyDecodeError", 0)
    /\ UNCHANGED <<inputVars, retryCount, imageUri, nft, calls, delays5, delays2,
                   handlerLog, exitCode, rowVars, csvVars, cnftVars, harnessVars>>

\* Lines 92-107: the balance query and the 1 SOL gate.
CheckBalance ==
    /\ script = "cnft" /\ pc = "balance"
    /\ calls' = Bump(calls, "getBalance")
    /\ \/ /\ pc' = "done"
          /\ handlerLog' = Append(handlerLog,
                 [handler |-> "balanceCheck", err |-> Err("getBalance", 1)])
          /\ UNCHANGED balance
       \/ \E lamports \in BalanceValues :
            /\ balance' = lamports
            /\ pc' = IF InsufficientBalance(lamports) THEN "done" ELSE "tree"
            /\ UNCHANGED handlerLog
    /\ UNCHANGED <<inputVars, retryCount, imageUri, nft, delays5, delays2, thrown,
                   exitCode, rowVars, csvVars, solanaAddresses, i, batch, j, mintLog,
                   mintFailures, batchSizes, delayAfter, harnessVars>>

\* Lines 110-118: createTree and sendAndConfirm, outside any try block.
CreateTree ==
    /\ script = "cnft" /\ pc = "tree"
    /\ calls' = Bump(calls, "createTree")
    /\ \E ok \in BOOLEAN :
         IF ok
         THEN pc' = "uploadJson" /\ thrown' = thrown
         ELSE pc' = "rejected" /\ thrown' = Err("createTree", calls'["createTree"])
    /\ UNCHANGED <<inputVars, retryCount, imageUri, nft, delays5, delays2,
                   handlerLog, exitCode, rowVars, csvVars, cnftVars, harnessVars>>

\* Lines 121-144: uploadJson, outside any try block.
UploadJson ==
    /\ script = "cnft" /\ pc = "uploadJson"
    /\ calls' = Bump(calls, "uploadJson")
    /\ \E ok \in BOOLEAN :
         IF ok
         THEN pc' = "readCsv" /\ thrown' = thrown
         ELSE pc' = "rejected" /\ thrown' = Err("uploadJson", calls'["uploadJson"])
    /\ UNCHANGED <<inputVars, retryCount, imageUri, nft, delays5, delays2,
                   handlerLog, exitCode, rowVars, csvVars, cnftVars, harnessVars>>

\* Lines 147-154: read and parse the CSV file.
CnftReadCsvFile ==
    /\ script = "cnft" /\ pc = "readCsv"
    /\ \E ok \in BOOLEAN :
         IF ok
         THEN pc' = "rows" /\ thrown' = thrown
         ELSE pc' = "rejected" /\ thrown' = Err("readFile", 0)
    /\ UNCHANGED <<inputVars, retryCount, imageUri, nft, calls, delays5, delays2,
                   handlerLog, exitCode, rowVars, csvVars, cnftVars, harnessVars>>

\* Lines 158-179: the extraction loop's pass over the next record.  The k-th
\* wallet of the file is named AddrNames[k].
ExtractRow ==
    /\ script = "cnft" /\ pc = "rows" /\ rowIdx < MaxRows
    /\ \E text \in CnftRowTexts(AddrNames[Len(solanaAddresses) + 1]) :
         /\ solanaAddresses' = solanaAddresses \o InlineOfRow(text).pushed
         /\ parseErrors' = parseErrors + (IF InlineOfRow(text).logged THEN 1 ELSE 0)
    /\ rowIdx' = rowIdx + 1
    /\ UNCHANGED <<inputVars, pc, retryCount, imageUri, nft, calls, delays5, delays2,
                   thrown, handlerLog, exitCode, csvVars, i, batch, j, mintLog,
                   mintFailures, batchSizes, delayAfter, balance, harnessVars>>

\* Lines 181-185: no record is left; let i = 0.
ExtractDone ==
    /\ script = "cnft" /\ pc = "rows"
    /\ pc' = "batchLoop"
    /\ i' = 0
    /\ UNCHANGED <<inputVars, retryCount, imageUri, nft, calls, delays5, delays2,
                   thrown, handlerLog, exitCode, rowVars, csvVars, solanaAddresses,
                   batch, j, mintLog, mintFailures, batchSizes, delayAfter, balance,
                   harnessVars>>

\* Lines 185-187: the loop condition holds; take the next slice.
BatchStart ==
    /\ script = "cnft" /\ pc = "batchLoop"
    /\ BatchLoopCond(i, Len(solanaAddresses))
    /\ batch' = Slice(solanaAddresses, i, i + batchSize)
    /\ batchSizes' = Append(batchSizes, Len(batch'))
    /\ j' = 0
    /\ pc' = "batch"
    /\ UNCHANGED <<inputVars, retryCount, imageUri, nft, calls, delays5, delays2,
                   thrown, handlerLog, exitCode, rowVars, csvVars, solanaAddresses,
                   i, mintLog, mintFailures, delayAfter, balance, harnessVars>>

\* Lines 189-217: the try block for the next address of the slice; a failure
\* (of publicKey, mintV1 or sendAndConfirm) is logged and the loop goes on.
MintAddress ==
    /\ script = "cnft" /\ pc = "batch" /\ j < Len(batch)
    /\ mintLog' = Append(mintLog, batch[j + 1])
    /\ j' = j + 1
    /\ \E outcome \in {"ok", "publicKeyThrow", "mintThrow"} :
         /\ calls' = IF outcome = "publicKeyThrow" THEN calls ELSE Bump(calls, "mintV1")
         /\ mintFailures' = mintFailures + (IF outcome = "ok" THEN 0 ELSE 1)
    /\ UNCHANGED <<inputVars, pc, retryCount, imageUri, nft, delays5, delays2,
                   thrown, handlerLog, exitCode, rowVars, csvVars, solanaAddresses,
                   i, batch, batchSizes, delayAfter, balance, harnessVars>>

\* Lines 219-224 and the loop step: wait 2 s when another batch follows,
\* then i += batchSize.
BatchEnd ==
    /\ script = "cnft" /\ pc = "batch" /\ j = Len(batch)
    /\ IF WaitsBetweenBatches(i, Len(solanaAddresses))
       THEN delays2' = delays2 + 1 /\ delayAfter' = Append(delayAfter, Len(mintLog))
       ELSE UNCHANGED <<delays2, delayAfter>>
    /\ i' = NextBatchIndex(i)
    /\ pc' = "batchLoop"
    /\ UNCHANGED <<inputVars, retryCount, imageUri, nft, calls, delays5, thrown,
                   handlerLog, exitCode, rowVars, csvVars, solanaAddresses, batch, j,
                   mintLog, mintFailures, batchSizes, balance, harnessVars>>

\* Line 185: the loop condition fails; main returns.
BatchLoopExit ==
    /\ script = "cnft" /\ pc = "batchLoop"
    /\ ~BatchLoopCond(i, Len(solanaAddresses))
    /\ pc' = "done"
    /\ UNCHANGED <<inputVars, retryCount, imageUri, nft, calls, delays5, delays2,
                   thrown, handlerLog, exitCode, rowVars, csvVars, cnftVars,
                   harnessVars>>

\* Line 227: main().catch(console.error).
CnftMainCatch ==
    /\ script = "cnft" /\ pc = "rejected"
    /\ handlerLog' = Append(handlerLog, [handler |-> "main", err |-> thrown])
    /\ pc' = "done"
    /\ UNCHANGED <<inputVars, retryCount, imageUri, nft, calls, delays5, delays2,
                   thrown, exitCode, rowVars, csvVars, cnftVars, harnessVars>>

\* ------------------------------------------------------------- the three scripts

Next ==
    \/ Configure \/ ReadImage \/ UploadImage \/ UploadMetadata \/ MintNft
    \/ RunCatch \/ MainCatch
    \/ CsvConfigure \/ CollectionMetadata \/ MintCollection \/ ReadCsvFile
    \/ ReadUsersRow \/ ReadUsersDone \/ MintForUser \/ AllUsersMinted
    \/ CsvRunCatch \/ CsvMainCatch
    \/ CnftStart \/ CheckRpc \/ CreateSigner \/ CheckBalance \/ CreateTree
    \/ UploadJson \/ CnftReadCsvFile \/ ExtractRow \/ ExtractDone
    \/ BatchStart \/ MintAddress \/ BatchEnd \/ BatchLoopExit \/ CnftMainCatch
    \/ Exit

Spec == Init /\ [][Next]_vars

\* ------------------------------------------------------------- the extractors, row by row

\* The three extractors of the repository fed the same CSV, one record at a
\* time: readUsersFromCSV (part_003), the extraction loop of part_004's main
\* and extractSolanaAddresses (part_004), over every text of Texts.
ExtractInit ==
    /\ script = "extract"
    /\ argv2 = ""
    /\ envRpc = FALSE
    /\ envKey = "valid"
    /\ InitCommon

NoText == TextOf("broken", TRUE, <<>>)

\* csv.parse yields the next record.
NextRecord ==
    /\ script = "extract" /\ pc = "start"
    /\ rowIdx < MaxExtractRows
    /\ \E text \in Texts : curText' = text
    /\ rowIdx' = rowIdx + 1
    /\ pc' = "record"
    /\ UNCHANGED <<inputVars, retryCount, imageUri, nft, calls, delays5, delays2,
                   thrown, handlerLog, exitCode, parseErrors, csvVars, cnftVars,
                   outUsers, outInline, outFn, fnThrew>>

\* Each extractor handles the record; extractSolanaAddresses handles nothing
\* once an exception has ended it.
ExtractRecord ==
    /\ script = "extract" /\ pc = "record"
    /\ outUsers' = outUsers \o UsersOfRow(rowIdx, curText)
    /\ outInline' = outInline \o InlineOfRow(curText).pushed
    /\ outFn' = IF fnThrew THEN outFn ELSE outFn \o FnOfRow(curText).pushed
    /\ fnThrew' = (fnThrew \/ FnOfRow(curText).threw)
    /\ parseErrors' = parseErrors + (IF InlineOfRow(curText).logged THEN 1 ELSE 0)
    /\ pc' = "extracted"
    /\ UNCHANGED <<inputVars, retryCount, imageUri, nft, calls, delays5, delays2,
                   thrown, handlerLog, exitCode, rowIdx, csvVars, cnftVars, curText>>

\* The loops step to the next record; the handled one is out of scope.
RecordDone ==
    /\ script = "extract" /\ pc = "extracted"
    /\ curText' = NoText
    /\ pc' = "start"
    /\ UNCHANGED <<inputVars, retryCount, imageUri, nft, calls, delays5, delays2,
                   thrown, handlerLog, exitCode, rowVars, csvVars, cnftVars,
                   outUsers, outInline, outFn, fnThrew>>

ExtractNext == NextRecord \/ ExtractRecord \/ RecordDone

SpecExtract == ExtractInit /\ [][ExtractNext]_vars

\* ============================================================= properties

Last(seq) == seq[Len(seq)]

LoopOver == pc \in {"catch", "done", "exited"}

\* A retried operation was invoked, never returned, and its loop is over.
UploadExhausted == script = "single" /\ calls["upload"] > 0 /\ imageUri = 0 /\ LoopOver
MintExhausted == script = "single" /\ calls["create"] > 0 /\ nft = 0 /\ LoopOver
CollectionExhausted == script = "csv" /\ calls["create"] > 0 /\ nft = 0 /\ LoopOver

\* The run-level catch block has logged the error in flight.
RunHandlerGot(err) ==
    pc \in {"done", "exited"} => Last(handlerLog) = [handler |-> "run", err |-> err]

\* C1: when the retried operation (image upload, NFT mint, collection mint)
\* fails on every invocation, it is invoked exactly 3 times, exactly 2 waits
\* of 5 s are performed, and the error that reaches the caller is the one
\* thrown by the third invocation.
C1_RetryExhaustion ==
    /\ UploadExhausted =>
          /\ calls["upload"] = 3 /\ delays5["upload"] = 2
          /\ thrown = Err("upload", 3) /\ RunHandlerGot(thrown)
    /\ MintExhausted =>
          /\ calls["create"] = 3 /\ delays5["create"] = 2
          /\ thrown = Err("create", 3) /\ RunHandlerGot(thrown)
    /\ CollectionExhausted =>
          /\ calls["create"] = 3 /\ delays5["create"] = 2
          /\ thrown.op \in MintOutcomes \ {"ok"} /\ thrown.n = 3
          /\ RunHandlerGot(thrown)

\* The image upload failed three times and the run is over.
C1_Witness ==
    /\ script = "single" /\ pc = "exited"
    /\ imageUri = 0 /\ calls["upload"] = 3 /\ delays5["upload"] = 2

\* C2: when the retried operation fails k times (k in 0..2) and then returns,
\* the caller holds the value of invocation k+1, the operation was invoked
\* exactly k+1 times with exactly k waits of 5 s, and it is never invoked
\* after the success; after k < 3 failures the loop is still attempting.
C2_RetrySuccess ==
    /\ imageUri > 0 =>
          /\ imageUri \in 1..3 /\ calls["upload"] = imageUri
          /\ delays5["upload"] = imageUri - 1 /\ pc # "upload"
    /\ nft > 0 =>
          /\ nft \in 1..3 /\ calls["create"] = nft
          /\ delays5["create"] = nft - 1 /\ pc \notin {"mint", "collection"}
    /\ pc = "upload" =>
          /\ calls["upload"] = retryCount /\ delays5["upload"] = retryCount
          /\ retryCount < maxRetries
    /\ pc \in {"mint", "collection"} =>
          /\ calls["create"] = retryCount /\ delays5["create"] = retryCount
          /\ retryCount < maxRetries

\* The mint failed twice, returned on the third invocation, and the run ended.
C2_Witness ==
    /\ script = "single" /\ pc = "exited"
    /\ nft = 3 /\ calls["create"] = 3 /\ delays5["create"] = 2

\* Errors thrown by mintNFTForUser.
UserErrOps == (UserMintOutcomes \ {"ok"}) \cup {"noAddress"}

\* part_004's main returned from the end of the batch loop.
CnftLoopOver ==
    /\ script = "cnft" /\ pc \in {"done", "exited"}
    /\ calls["uploadJson"] = 1 /\ thrown = NoErr

\* C3 as stated: in both recipient loops a failed mint is logged and every
\* later recipient still gets a mint attempt.
C3_AsStated ==
    /\ (script = "csv" /\ pc \in {"done", "exited"} /\ thrown.op \in UserErrOps)
          => userIdx = Len(users)
    /\ CnftLoopOver => mintLog = solanaAddresses

\* C3, amended: in the compressed-NFT batch loop a failed mint is logged and
\* every address of the list is still handed to the mint, in order; in the
\* CSV script's per-user loop a failed mint is rethrown to the run-level
\* catch, which logs it, and no later user gets a mint attempt.
C3_FailedMint ==
    /\ script = "cnft" =>
          /\ mintLog = SubSeq(solanaAddresses, 1, Len(mintLog))
          /\ mintFailures <= Len(mintLog)
          /\ CnftLoopOver => mintLog = solanaAddresses
    /\ (script = "csv" /\ thrown.op \in UserErrOps) =>
          /\ LoopOver
          /\ userIdx = thrown.n
          /\ thrown.op # "noAddress" =>
               \E k \in DOMAIN handlerLog :
                   handlerLog[k] = [handler |-> "mintNFTForUser", err |-> thrown]
          /\ RunHandlerGot(thrown)

\* The first of three users failed to mint and the run ended there.
C3_Witness ==
    /\ script = "csv" /\ pc = "exited"
    /\ thrown.op = "userCreateThrow" /\ Len(users) = 3 /\ userIdx = 1

\* C4: the batches of part_004 are the contiguous slices of solanaAddresses
\* of sizes 5, ..., 5 and a last one of 1..5, and the mint try block runs
\* exactly once per list position, in list order, whatever mints fail.
C4_Batches ==
    script = "cnft" =>
      LET N == Len(solanaAddresses) IN
      /\ mintLog = SubSeq(solanaAddresses, 1, Len(mintLog))
      /\ \A k \in DOMAIN batchSizes :
             /\ batchSizes[k] = IF 5 * k <= N THEN 5 ELSE N - 5 * (k - 1)
             /\ batchSizes[k] \in 1..5
      /\ pc = "batch" =>
             /\ i = 5 * (Len(batchSizes) - 1)
             /\ batch = SubSeq(solanaAddresses, i + 1, Min(i + 5, N))
             /\ Len(mintLog) = i + j
      /\ pc = "batchLoop" => Len(mintLog) = Min(i, N)
      /\ CnftLoopOver =>
             /\ mintLog = solanaAddresses
             /\ Len(batchSizes) = (N + 4) \div 5

\* Twelve addresses were minted in batches of 5, 5 and 2, some mints failing.
C4_Witness ==
    /\ CnftLoopOver /\ Len(solanaAddresses) = 12
    /\ batchSizes = <<5, 5, 2>> /\ mintLog = solanaAddresses
    /\ mintFailures > 0

\* C5: the 2 s wait of part_004 runs max(0, ceil(N/5) - 1) times, once after
\* each batch that another batch follows, after that batch's last mint and
\* before the next batch's first, and never after the last batch.
C5_InterBatchDelay ==
    script = "cnft" =>
      LET N == Len(solanaAddresses) IN
      /\ delays2 = Len(delayAfter)
      /\ \A k \in DOMAIN delayAfter : delayAfter[k] = 5 * k /\ 5 * k < N
      /\ pc = "batch" => delays2 = i \div 5
      /\ (pc = "batchLoop" /\ i < N) => delays2 = i \div 5
      /\ CnftLoopOver =>
             delays2 = IF N = 0 THEN 0 ELSE (N + 4) \div 5 - 1

\* Ten addresses, two full batches: one wait, after the fifth mint.
C5_Witness ==
    /\ CnftLoopOver /\ Len(solanaAddresses) = 10
    /\ Len(mintLog) = 10 /\ delays2 = 1 /\ delayAfter = <<5>>

\* The upstream call whose failure an error of the retried loops reports.
CollectionErrOps == MintOutcomes \ {"ok"}

\* C6 as stated: every run-level upload or mint call is retried, and its
\* failure reaches the run-level handler only after 3 failed attempts.
C6_AsStated ==
    /\ thrown.op \in {"upload", "uploadMetadata", "create", "uploadJson"}
          => calls[thrown.op] = maxRetries
    /\ thrown.op \in CollectionErrOps => calls["create"] = maxRetries

\* C6, amended: the image upload and the NFT mint of index.ts and the
\* collection mint of part_003 are retried, and their failure reaches the
\* run-level handler only after 3 failed attempts; the metadata uploads of
\* index.ts and part_003 and the uploadJson of part_004 are called once, and
\* their first failure reaches the handler.
C6_RetriedCalls ==
    /\ thrown.op \in {"upload", "create"} =>
          /\ thrown.n = maxRetries /\ calls[thrown.op] = maxRetries
          /\ retryCount = maxRetries
    /\ thrown.op \in CollectionErrOps =>
          /\ thrown.n = maxRetries /\ calls["create"] = maxRetries
          /\ retryCount = maxRetries
    /\ thrown.op \in {"uploadMetadata", "uploadJson"} =>
          /\ thrown.n = 1 /\ calls[thrown.op] = 1
    /\ (script = "single" /\ imageUri = 0 /\ calls["upload"] \in 1..2) => pc = "upload"
    /\ (script = "single" /\ nft = 0 /\ calls["create"] \in 1..2) => pc = "mint"
    /\ (script = "csv" /\ nft = 0 /\ calls["create"] \in 1..2) => pc = "collection"

\* The single metadata upload of index.ts failed and the run ended on it.
C6_Witness ==
    /\ script = "single" /\ pc = "exited"
    /\ thrown = Err("uploadMetadata", 1) /\ calls["uploadMetadata"] = 1
    /\ Last(handlerLog) = [handler |-> "run", err |-> thrown]

\* C7 as stated: an error that reaches the run-level handler is logged and
\* the process ends with a non-zero status; status 0 means no such error.
C7_AsStated ==
    (pc = "exited" /\ thrown # NoErr) =>
        /\ \E k \in DOMAIN handlerLog :
               handlerLog[k].handler \in {"run", "main"} /\ handlerLog[k].err = thrown
        /\ exitCode # 0

\* Upstream upload, Merkle-tree creation and mint calls.
MintingOps == {"upload", "uploadMetadata", "create", "userUploadMetadata",
               "userCreate", "createTree", "uploadJson", "mintV1"}

ConfigurationError == argv2 \notin {"", "mainnet", "devnet"} \/ envKey = "absent"

\* C8 as stated: in every script a run with a network token other than
\* mainnet/devnet, or without WALLET_PRIVATE_KEY, makes no upload, tree
\* creation or mint call and ends with a logged error.
C8_AsStated ==
    ConfigurationError =>
        /\ \A op \in MintingOps : calls[op] = 0
        /\ pc = "exited" => (thrown # NoErr /\ handlerLog # <<>>)

\* An entry with type "wallet" and chain_type "solana", as the claims word it.
WalletOnSolana(entry) == entry.type = "wallet" /\ entry.chain_type = "solana"

\* The normalized text parses to a list.
ParsesToList(text) == Parses(Normalize(text)) /\ Normalize(text).isList

\* The normalized text parses to a list holding a wallet/solana entry.
HasMatch(text) ==
    /\ ParsesToList(text)
    /\ \E k \in DOMAIN text.entries : WalletOnSolana(text.entries[k])

\* Position of the first wallet/solana entry of a text that has one.
FirstMatch(text) ==
    CHOOSE k \in DOMAIN text.entries :
        /\ WalletOnSolana(text.entries[k])
        /\ \A m \in 1..(k - 1) : ~WalletOnSolana(text.entries[m])

\* A row that fails to parse after normalization or holds no wallet/solana entry.
BadRow(text) == ~HasMatch(text)

NoUserOfRow(id) == \A k \in DOMAIN outUsers : outUsers[k].id # id

\* C9 as stated: a row that fails to parse after normalization, or has no
\* wallet/solana entry, is left out of the output and no exception escapes
\* any extractor; the output keeps the CSV row order.
C9_AsStated ==
    (script = "extract" /\ pc = "extracted") =>
        /\ ~fnThrew
        /\ BadRow(curText) =>
               /\ NoUserOfRow(rowIdx)
               /\ InlineOfRow(curText).pushed = <<>>
               /\ FnOfRow(curText).pushed = <<>>
        /\ \A k \in DOMAIN outUsers :
               /\ outUsers[k].id <= rowIdx
               /\ \A m \in 1..(k - 1) : outUsers[m].id < outUsers[k].id

\* C10 as stated: for a row whose normalized text parses to a list holding a
\* wallet/solana entry, the extracted address is that of the first such entry.
C10_AsStated ==
    (script = "extract" /\ pc = "extracted" /\ HasMatch(curText)) =>
        LET address == Normalize(curText).entries[FirstMatch(curText)].address IN
        /\ extractSolanaAddress(curText).address = address
        /\ InlineOfRow(curText).pushed = <<address>>
        /\ outInline # <<>> /\ Last(outInline) = address

\* C10, amended: for such a row with no null element before its first
\* wallet/solana entry, the extracted address is that of the first such
\* entry, never a later one's nor that of an entry matching one condition
\* only; with a null element before it, find throws inside the try block and
\* the row yields no address.
C10_FirstMatch ==
    (script = "extract" /\ pc = "extracted" /\ HasMatch(curText)) =>
        LET entries == Normalize(curText).entries
            first == FirstMatch(curText)
            address == entries[first].address
        IN  IF \E m \in 1..(first - 1) : entries[m].isNull
            THEN /\ extractSolanaAddress(curText) = [address |-> Undefined, logged |-> TRUE]
                 /\ InlineOfRow(curText) = [pushed |-> <<>>, logged |-> TRUE]
                 /\ NoUserOfRow(rowIdx)
            ELSE /\ extractSolanaAddress(curText).address = address
                 /\ InlineOfRow(curText).pushed = <<address>>
                 /\ outInline # <<>> /\ Last(outInline) = address
                 /\ IF address = Undefined
                    THEN NoUserOfRow(rowIdx)
                    ELSE /\ outUsers # <<>>
                         /\ Last(outUsers) = [id |-> rowIdx, solanaAddress |-> address]

\* A Python-style row with an entry matching the type only and then a
\* wallet/solana entry gave the second entry's address.
C10_Witness ==
    /\ script = "extract" /\ pc = "extracted"
    /\ curText = TextOf("python", TRUE, <<EntryOf("wallet", "ethereum", "E"),
                                          EntryOf("wallet", "solana", "A")>>)
    /\ Last(outUsers) = [id |-> rowIdx, solanaAddress |-> "A"]
    /\ Last(outInline) = "A"

\* A defined, non-empty address.
HasAddress(address) == address \notin {Undefined, Null, ""}

\* C11 as stated: every record readUsersFromCSV outputs and every address the
\* extraction loop of the compressed-mint script pushes is defined and
\* non-empty, whatever the rows hold.
C11_AsStated ==
    script = "extract" =>
        /\ \A k \in DOMAIN outUsers : HasAddress(outUsers[k].solanaAddress)
        /\ \A k \in DOMAIN outInline : HasAddress(outInline[k])

\* Some per-user work of the CSV script has happened or is about to: the
\* CSV read, a per-user metadata upload, create or confirmation.
PerUserPhase ==
    \/ pc \in {"readCsv", "rows", "users"}
    \/ rowIdx > 0 \/ users # <<>> \/ userIdx > 0 \/ userCollections # <<>>
    \/ calls["userUploadMetadata"] > 0 \/ calls["userCreate"] > 0
    \/ calls["userConfirm"] > 0

\* Collection-mint attempts whose create call threw.
CreateThrows == calls["create"] - calls["confirm"]

\* C12: in the CSV script the CSV read and every per-user upload and mint come
\* after a collection-mint attempt that returned with an error-free
\* confirmation; a confirmation carrying an error is a failed attempt and uses
\* up one of the 3 attempts; after 3 failed attempts no per-user work happens;
\* every per-user create is passed the collection of the one successful
\* attempt.
C12_CollectionFirst ==
    script = "csv" =>
        /\ calls["create"] <= maxRetries
        /\ calls["create"] = retryCount + (IF nft > 0 THEN 1 ELSE 0)
        /\ confirmErrs <= retryCount - CreateThrows
        /\ PerUserPhase => /\ nft > 0
                           /\ nft = calls["create"]
                           /\ calls["confirm"] > confirmErrs
        /\ retryCount = maxRetries => nft = 0 /\ ~PerUserPhase
        /\ Len(userCollections) = calls["userCreate"]
        /\ \A k \in DOMAIN userCollections : userCollections[k] = nft

\* Two confirmations carried an error, the third attempt produced the
\* collection, and two users were minted into it.
C12_Witness ==
    /\ script = "csv" /\ pc = "done"
    /\ confirmErrs = 2 /\ retryCount = 2 /\ nft = 3
    /\ userCollections = <<3, 3>>
    /\ thrown = NoErr

\* C13: in the single-mint script the image upload and the mint each have
\* their own budget of 3 attempts: the counter restarts at 0 before the mint
\* loop, so the mint is given up only after 3 invocations however many the
\* image upload needed; the image upload and the mint are each invoked at
\* most 3 times, and the mint is invoked only after the image upload and the
\* metadata upload succeeded.
C13_OwnBudget ==
    script = "single" =>
        /\ calls["upload"] <= maxRetries
        /\ calls["create"] <= maxRetries
        /\ pc = "mint" => retryCount = calls["create"] /\ calls["create"] < maxRetries
        /\ MintExhausted => calls["create"] = maxRetries
        /\ (pc = "mint" \/ calls["create"] > 0) =>
               /\ imageUri > 0 /\ imageUri = calls["upload"]
               /\ calls["uploadMetadata"] = 1
               /\ thrown.op \notin {"upload", "uploadMetadata"}

\* The image upload succeeded on its third attempt and so did the mint.
C13_Witness ==
    /\ script = "single" /\ pc = "done"
    /\ calls["upload"] = 3 /\ imageUri = 3
    /\ calls["create"] = 3 /\ nft = 3
    /\ delays5 = [op \in {"upload", "create"} |-> 2]

\* Calls of the compressed-mint script behind its two gates.
GatedCalls == calls["createTree"] + calls["uploadJson"] + calls["mintV1"]

\* A check of the given name logged its failure and returned from main.
CheckFailed(name) == \E k \in DOMAIN handlerLog : handlerLog[k].handler = name

\* C14: in the compressed-mint script the Merkle tree is created, the
\* metadata uploaded and a recipient minted only in runs whose slot query
\* succeeded and whose balance query returned at least 1 SOL (10^9 lamports);
\* when the slot query fails, the balance query fails or the balance is below
\* 1 SOL, the run ends with no tree creation, upload or mint call.
C14_Gates ==
    script = "cnft" =>
        /\ (GatedCalls > 0 \/ pc \in {"tree", "uploadJson"}) =>
               /\ calls["getSlot"] = 1 /\ ~CheckFailed("rpcCheck")
               /\ calls["getBalance"] = 1 /\ ~CheckFailed("balanceCheck")
               /\ balance >= 1000000000
        /\ ( \/ CheckFailed("rpcCheck")
             \/ CheckFailed("balanceCheck")
             \/ (calls["getBalance"] > 0 /\ balance < 1000000000) ) =>
               /\ GatedCalls = 0
               /\ pc \in {"done", "exited"}

\* A wallet holding exactly 1 SOL passed both gates and recipients were minted.
C14_Witness ==
    /\ script = "cnft" /\ pc = "done"
    /\ balance = 1000000000
    /\ calls["createTree"] = 1 /\ calls["uploadJson"] = 1 /\ calls["mintV1"] >= 2

====
